---------------------------- MODULE Spec2Model ----------------------------
(***************************************************************************)
(* A model of py2math (src/py2math.py): the public function py2math, the   *)
(* str subclass Math, the helper bracketize and the lark Interpreter       *)
(* subclass Converter with one rendering rule per parse-tree node kind.    *)
(*                                                                         *)
(* Python strings are TLA+ strings, so every rendering is compared         *)
(* character by character.  A Python value is a record                     *)
(*     [cls, type, text, items]                                            *)
(* where cls is the Python class of the value.  A raised exception is the  *)
(* value of class "raise" whose type is the exception's name; it           *)
(* propagates through every caller that does not catch it.                 *)
(***************************************************************************)
EXTENDS Integers, Sequences, FiniteSets, TLC

VARIABLES
    phase,    \* "idle", or the operation that just returned: "py2math" or "visit"
    call,     \* the last py2math call: its arguments and what it did
    twin,     \* the same call made with the other value of debug
    node,     \* the tree last handed to Converter.visit
    val,      \* what Converter.visit returned (or raised) for node
    locals    \* the local variables of the handler that rendered node

vars == <<phase, call, twin, node, val, locals>>

(***************************************************************************)
(* Python values.                                                          *)
(***************************************************************************)
Token(type, value) == [cls |-> "Token", type |-> type, text |-> value, items |-> <<>>]

Str(s) == [cls |-> "str", type |-> "", text |-> s, items |-> <<>>]

Math(s) == [cls |-> "Math", type |-> "", text |-> s, items |-> <<>>]

PyList(xs) == [cls |-> "list", type |-> "", text |-> "", items |-> xs]

None == [cls |-> "None", type |-> "", text |-> "", items |-> <<>>]

Tree(data, children) == [cls |-> "Tree", type |-> data, text |-> "", items |-> children]

Raise(exc) == [cls |-> "raise", type |-> exc, text |-> "", items |-> <<>>]

IsStr(v) == v.cls \in {"str", "Token", "Math"}

IsRaise(v) == v.cls = "raise"

\* bool(v), as `if x` and filter(lambda x: x, ...) use it
Truthy(v) ==
    CASE v.cls = "None" -> FALSE
      [] v.cls = "list" -> v.items # <<>>
      [] IsStr(v)       -> v.text # ""
      [] OTHER          -> TRUE

\* needle in haystack, for two strings
Contains(haystack, needle) ==
    \E i \in 1..(Len(haystack) + 1) :
        /\ i + Len(needle) - 1 <= Len(haystack)
        /\ SubSeq(haystack, i, i + Len(needle) - 1) = needle

StartsWith(s, prefix) ==
    Len(s) >= Len(prefix) /\ SubSeq(s, 1, Len(prefix)) = prefix

EndsWith(s, suffix) ==
    Len(s) >= Len(suffix) /\ SubSeq(s, Len(s) - Len(suffix) + 1, Len(s)) = suffix

\* the characters of a string, as iterating over a str yields them
Chars(s) == [i \in 1..Len(s) |-> Str(SubSeq(s, i, i))]

RECURSIVE EscapeFor(_, _)
\* the body of repr(s) between quotes q
EscapeFor(s, q) ==
    IF s = "" THEN ""
    ELSE LET c == SubSeq(s, 1, 1)
             e == CASE c = "\\" -> "\\\\"
                    [] c = "\n" -> "\\n"
                    [] c = q    -> "\\" \o q
                    [] OTHER    -> c
         IN  e \o EscapeFor(SubSeq(s, 2, Len(s)), q)

\* repr of a str: single quotes unless the text has one and no double quote
ReprStr(s) ==
    LET q == IF Contains(s, "'") /\ ~Contains(s, "\"") THEN "\"" ELSE "'"
    IN  q \o EscapeFor(s, q) \o q

RECURSIVE Repr(_)
RECURSIVE ReprItems(_)
\* repr(v); lark's Token.__repr__ is 'Token(%r, %r)' % (type, value)
Repr(v) ==
    CASE v.cls = "Token" -> "Token(" \o ReprStr(v.type) \o ", " \o ReprStr(v.text) \o ")"
      [] v.cls \in {"str", "Math"} -> ReprStr(v.text)
      [] v.cls = "list"  -> "[" \o ReprItems(v.items) \o "]"
      [] OTHER           -> "None"

ReprItems(xs) ==
    IF xs = <<>> THEN ""
    ELSE IF Len(xs) = 1 THEN Repr(xs[1])
    ELSE Repr(xs[1]) \o ", " \o ReprItems(Tail(xs))

\* str(v), which is what an f-string field {v} inserts
Format(v) == IF IsStr(v) THEN v.text ELSE Repr(v)

RECURSIVE JoinText(_, _)
JoinText(sep, xs) ==
    IF xs = <<>> THEN ""
    ELSE IF Len(xs) = 1 THEN xs[1].text
    ELSE xs[1].text \o sep \o JoinText(sep, Tail(xs))

\* sep.join(xs): a TypeError unless every item is a str
Join(sep, xs) ==
    IF \E i \in 1..Len(xs) : ~IsStr(xs[i]) THEN Raise("TypeError")
    ELSE Str(JoinText(sep, xs))

\* the items a for loop over v sees; None and other non-iterables raise
Iterate(v) ==
    CASE v.cls = "list" -> v.items
      [] IsStr(v)       -> Chars(v.text)
      [] OTHER          -> <<>>

Iterable(v) == v.cls = "list" \/ IsStr(v)

HasRaise(vs) == \E i \in 1..Len(vs) : IsRaise(vs[i])

FirstRaise(vs) == vs[CHOOSE i \in 1..Len(vs) : IsRaise(vs[i]) /\ \A j \in 1..(i - 1) : ~IsRaise(vs[j])]


(***************************************************************************)
(* bracketize and the Converter's rendering rules.  A rule takes vs, the   *)
(* list self.visit_children(tree) returned, and returns the rule's value.  *)
(***************************************************************************)
\* bracketize without its isinstance test
bracketize_always(x) == Str("\\left(" \o Format(x) \o "\\right)")

bracketize(x) ==
    IF x.cls = "Token" THEN x ELSE Str("\\left(" \o Format(x) \o "\\right)")

\* `idk, = self.visit_children(tree); return idk`
unpack_one(vs) == IF Len(vs) = 1 THEN vs[1] ELSE Raise("ValueError")

file_input(vs) == unpack_one(vs)

eval_input(vs) == unpack_one(vs)

expr_stmt(vs) == unpack_one(vs)

assign_stmt(vs) == unpack_one(vs)

return_stmt(vs) == unpack_one(vs)

funcdef(vs) ==
    IF Len(vs) # 4 THEN Raise("ValueError")
    ELSE LET name       == vs[1]
             parameters == vs[2]
             suite_     == vs[4]
             shown      == SelectSeq(Iterate(parameters), Truthy)
             joined     == Join(", ", shown)
         IN  IF ~Iterable(parameters) THEN Raise("TypeError")
             ELSE IF IsRaise(joined) THEN joined
             ELSE Str(Format(name) \o "(" \o joined.text \o ") = " \o Format(suite_))

paramvalue(vs) == IF Len(vs) # 2 THEN Raise("ValueError") ELSE vs[1]

typedparam(vs) == IF Len(vs) # 2 THEN Raise("ValueError") ELSE vs[1]

assign(vs) ==
    IF Len(vs) # 2 THEN Raise("ValueError")
    ELSE Str(Format(vs[1]) \o " = " \o Format(vs[2]))

\* suite with its assert statements gone
suite_asserts_stripped(tree) == IF Len(tree.items) = 0 THEN "IndexError" ELSE ""

\* the two assert statements of suite: "" when both pass
suite_asserts(tree) ==
    LET n   == Len(tree.items)
        bad == {i \in 1..(n - 1) : tree.items[i].cls # "Tree" \/ tree.items[i].type # "assign_stmt"}
        b   == CHOOSE i \in bad : \A j \in bad : i <= j
    IN  IF n = 0 THEN "IndexError"
        ELSE IF tree.items[n].cls # "Tree" THEN "AttributeError"
        ELSE IF tree.items[n].type # "return_stmt" THEN "AssertionError"
        ELSE IF bad = {} THEN ""
        ELSE IF tree.items[b].cls # "Tree" THEN "AttributeError"
        ELSE "AssertionError"

\* suite listing the assignments last to first
suite_reversed(tree, lines) ==
    LET n == Len(lines)
        failed == suite_asserts(tree)
        before == Join("\\\\\n", [i \in 1..(n - 1) |-> lines[n - i]])
    IN  IF failed # "" THEN Raise(failed)
        ELSE IF n = 1 THEN lines[1]
        ELSE IF ~IsStr(lines[n]) THEN Raise("TypeError")
        ELSE IF IsRaise(before) THEN before
        ELSE Str(lines[n].text \o "\\\\\n\\text{where}\\\\\n" \o before.text)

suite(tree, lines) ==
    LET n      == Len(lines)
        failed == suite_asserts(tree)
        before == Join("\\\\\n", SubSeq(lines, 1, n - 1))
    IN  IF failed # "" THEN Raise(failed)
        ELSE IF n = 1 THEN lines[1]
        ELSE IF ~IsStr(lines[n]) THEN Raise("TypeError")
        ELSE IF IsRaise(before) THEN before
        ELSE Str(lines[n].text \o "\\\\\n\\text{where}\\\\\n" \o before.text)

test(vs) ==
    IF Len(vs) # 3 THEN Raise("ValueError")
    ELSE Str("\n" \o "\\begin{cases}\n"
             \o "  " \o Format(vs[1]) \o " & \\text{if } " \o Format(vs[2]) \o " \\\\\n"
             \o "  " \o Format(vs[3]) \o " & \\text{otherwise}\n"
             \o "\\end{cases}\n")

funccall(vs) ==
    IF Len(vs) # 2 THEN Raise("ValueError")
    ELSE Str(Format(vs[1]) \o "(" \o Format(vs[2]) \o ")")

arguments(vs) == Join(",\\ ", vs)

argvalue(vs) == IF Len(vs) # 2 THEN Raise("ValueError") ELSE vs[2]

lambdef(vs) ==
    IF Len(vs) # 2 THEN Raise("ValueError")
    ELSE LET params == vs[1]
             ps     == Join(",\\ ", SelectSeq(Iterate(params), Truthy))
         IN  IF ~Iterable(params) THEN Raise("TypeError")
             ELSE IF IsRaise(ps) THEN ps
             ELSE Str("(" \o ps.text \o ") \\rightarrow " \o Format(vs[2]))

testlist_tuple(vs) ==
    IF Len(vs) = 1 THEN Str("\\left(" \o Format(vs[1]) \o ",\\right)")
    ELSE LET joined == Join(",\\ ", vs)
         IN  IF IsRaise(joined) THEN joined
             ELSE Str("\\left(" \o joined.text \o "\\right)")

tuple(vs) ==
    IF Len(vs) = 1 THEN Str("\\left(" \o Format(vs[1]) \o ",\\right)")
    ELSE LET joined == Join(",\\ ", vs)
         IN  IF IsRaise(joined) THEN joined
             ELSE Str("\\left(" \o joined.text \o "\\right)")

set(vs) ==
    LET joined == Join(",\\ ", vs)
    IN  IF IsRaise(joined) THEN joined
        ELSE Str("\\left\\{" \o joined.text \o "\\right\\}")

(***************************************************************************)
(* term: the loop over the children, then the rendering of the two lists.  *)
(***************************************************************************)
term_init == [dividend |-> <<>>, divisor |-> <<>>, dividing |-> FALSE, err |-> ""]

\* term's loop with a flag that a later * does not clear
term_step_latching(L, i, x) ==
    IF L.err # "" THEN L
    ELSE IF i % 2 = 0 THEN
        IF L.dividing THEN [L EXCEPT !.divisor = Append(@, x)]
        ELSE [L EXCEPT !.dividend = Append(@, x)]
    ELSE IF ~IsStr(x) THEN [L EXCEPT !.err = "TypeError"]
    ELSE IF Contains("*/", x.text) THEN [L EXCEPT !.dividing = (@ \/ x.text = "/")]
    ELSE [L EXCEPT !.err = "NotImplementedError"]

\* one iteration of the loop: i is enumerate's index, x the visited child
term_step(L, i, x) ==
    IF L.err # "" THEN L
    ELSE IF i % 2 = 0 THEN
        IF L.dividing THEN [L EXCEPT !.divisor = Append(@, x)]
        ELSE [L EXCEPT !.dividend = Append(@, x)]
    ELSE IF ~IsStr(x) THEN [L EXCEPT !.err = "TypeError"]
    ELSE IF Contains("*/", x.text) THEN [L EXCEPT !.dividing = (x.text = "/")]
    ELSE [L EXCEPT !.err = "NotImplementedError"]

RECURSIVE term_loop(_, _, _)
\* the loop from index i on
term_loop(vs, i, L) ==
    IF i >= Len(vs) THEN L ELSE term_loop(vs, i + 1, term_step(L, i, vs[i + 1]))

term_scan(vs) == term_loop(vs, 0, term_init)

\* `if len(xs) > 1: xs = [bracketize(x) for x in xs]`
term_brackets(xs) ==
    IF Len(xs) > 1 THEN [i \in 1..Len(xs) |-> bracketize(xs[i])] ELSE xs

term_render(L) ==
    LET dividend_str == Join(" \\cdot ", term_brackets(L.dividend))
        divisor_str  == Join(" \\cdot ", term_brackets(L.divisor))
    IN  IF L.err # "" THEN Raise(L.err)
        ELSE IF IsRaise(dividend_str) THEN dividend_str
        ELSE IF L.divisor # <<>> THEN
            IF IsRaise(divisor_str) THEN divisor_str
            ELSE Str("\\frac{" \o dividend_str.text \o "}{" \o divisor_str.text \o "}")
        ELSE dividend_str

term(vs) == term_render(term_scan(vs))

\* arith_expr's loop putting a space on each side of an operator
arith_step_spaced(result, i, x) ==
    IF IsRaise(result) THEN result
    ELSE IF i % 2 = 0 THEN Str(result.text \o bracketize(x).text)
    ELSE IF ~IsStr(x) THEN Raise("TypeError")
    ELSE Str(result.text \o " " \o x.text \o " ")

\* one iteration of arith_expr's loop on the accumulated result
arith_step(result, i, x) ==
    IF IsRaise(result) THEN result
    ELSE IF i % 2 = 0 THEN Str(result.text \o bracketize(x).text)
    ELSE IF ~IsStr(x) THEN Raise("TypeError")
    ELSE Str(result.text \o x.text)

RECURSIVE arith_loop(_, _, _)
arith_loop(vs, i, result) ==
    IF i >= Len(vs) THEN result ELSE arith_loop(vs, i + 1, arith_step(result, i, vs[i + 1]))

arith_expr(vs) == arith_loop(vs, 0, Str(""))

power(vs) ==
    IF Len(vs) # 2 THEN Raise("ValueError")
    ELSE Str("{" \o Format(bracketize(vs[1])) \o "}^{" \o Format(vs[2]) \o "}")

shift_expr == Str("[shift_expr]")

\* the dict of comparison: "" stands for a KeyError
comparison_table(key) ==
    CASE key = "<"      -> " < "
      [] key = ">"      -> " > "
      [] key = "=="     -> " = "
      [] key = ">="     -> " \\geq "
      [] key = "<="     -> " \\leq "
      [] key = "!="     -> " \\neq "
      [] key = "in"     -> " \\in "
      [] key = "not in" -> " \\notin "
      [] key = "is"     -> " \\equiv "
      [] key = "is not" -> " \\not\\equiv "
      [] OTHER          -> ""

comparison_step(result, i, x) ==
    IF IsRaise(result) THEN result
    ELSE IF i % 2 = 0 THEN Str(result.text \o bracketize(x).text)
    ELSE LET key == Join(" ", Iterate(x))
         IN  IF ~Iterable(x) THEN Raise("TypeError")
             ELSE IF IsRaise(key) THEN key
             ELSE IF comparison_table(key.text) = "" THEN Raise("KeyError")
             ELSE Str(result.text \o comparison_table(key.text))

RECURSIVE comparison_loop(_, _, _)
comparison_loop(vs, i, result) ==
    IF i >= Len(vs) THEN result
    ELSE comparison_loop(vs, i + 1, comparison_step(result, i, vs[i + 1]))

comparison(vs) == comparison_loop(vs, 0, Str(""))

ellipsis == Str("...")

\* `value, = tree.children; return value`: the child itself, not visited
var(tree) == IF Len(tree.items) = 1 THEN tree.items[1] ELSE Raise("ValueError")

number(tree) == IF Len(tree.items) = 1 THEN tree.items[1] ELSE Raise("ValueError")

string(tree) ==
    IF Len(tree.items) = 1 THEN Str("\\text{" \o Format(tree.items[1]) \o "}")
    ELSE Raise("ValueError")

(***************************************************************************)
(* Interpreter.visit: the rule named tree.data, and for a kind without a   *)
(* rule Interpreter.__default__, which returns visit_children(tree).       *)
(***************************************************************************)
RECURSIVE Visit(_)
visit_children(tree) ==
    [i \in 1..Len(tree.items) |->
        IF tree.items[i].cls = "Tree" THEN Visit(tree.items[i]) ELSE tree.items[i]]

NoChildVisit == {"shift_expr", "ellipsis", "var", "number", "string"}

Visit(tree) ==
    LET vs == visit_children(tree)
        d  == tree.type
    IN  IF d \notin NoChildVisit /\ HasRaise(vs) THEN FirstRaise(vs)
        ELSE CASE d = "file_input"     -> file_input(vs)
               [] d = "eval_input"     -> eval_input(vs)
               [] d = "expr_stmt"      -> expr_stmt(vs)
               [] d = "funcdef"        -> funcdef(vs)
               [] d = "paramvalue"     -> paramvalue(vs)
               [] d = "typedparam"     -> typedparam(vs)
               [] d = "assign_stmt"    -> assign_stmt(vs)
               [] d = "assign"         -> assign(vs)
               [] d = "suite"          -> suite(tree, vs)
               [] d = "return_stmt"    -> return_stmt(vs)
               [] d = "test"           -> test(vs)
               [] d = "funccall"       -> funccall(vs)
               [] d = "arguments"      -> arguments(vs)
               [] d = "argvalue"       -> argvalue(vs)
               [] d = "lambdef"        -> lambdef(vs)
               [] d = "testlist_tuple" -> testlist_tuple(vs)
               [] d = "tuple"          -> tuple(vs)
               [] d = "set"            -> set(vs)
               [] d = "term"           -> term(vs)
               [] d = "arith_expr"     -> arith_expr(vs)
               [] d = "power"          -> power(vs)
               [] d = "shift_expr"     -> shift_expr
               [] d = "comparison"     -> comparison(vs)
               [] d = "ellipsis"       -> ellipsis
               [] d = "var"            -> var(tree)
               [] d = "number"         -> number(tree)
               [] d = "string"         -> string(tree)
               [] OTHER                -> PyList(vs)

(***************************************************************************)
(* py2math.  An object handed to py2math is a record: kind is its Python   *)
(* type, elems the elements of a list, tuple or set in iteration order,    *)
(* str is str(obj), source the outcome of inspect.getsource(obj) ("ok" or  *)
(* the exception it raises), code the text it returns and parse what       *)
(* parser.parse(code) returns or raises.                                   *)
(***************************************************************************)
Obj(kind, elems, str, source, code, parse) ==
    [kind |-> kind, elems |-> elems, str |-> str, source |-> source,
     code |-> code, parse |-> parse]

\* Math._repr_latex_
repr_latex(self) == "$$ " \o self.text \o " $$"

Indent(level) == [i \in 1..level |-> "  "]

RECURSIVE Concat(_)
Concat(xs) == IF xs = <<>> THEN "" ELSE xs[1] \o Concat(Tail(xs))

RECURSIVE Pretty(_, _)
\* lark's Tree.pretty(), which py2math prints when debug is set
Pretty(tree, level) ==
    LET n == Len(tree.items)
    IN  Concat(Indent(level)) \o tree.type \o
        IF n = 1 /\ tree.items[1].cls # "Tree"
        THEN "\t" \o Format(tree.items[1]) \o "\n"
        ELSE "\n" \o Concat([i \in 1..n |->
                 IF tree.items[i].cls = "Tree" THEN Pretty(tree.items[i], level + 1)
                 ELSE Concat(Indent(level + 1)) \o Format(tree.items[i]) \o "\n"])

\* what one py2math call did: the value returned (or the exception raised),
\* how often it called parser.parse and Converter.visit, and what it printed
Outcome(ret, parses, visits, out) ==
    [ret |-> ret, parses |-> parses, visits |-> visits, out |-> out]

RECURSIVE SumOf(_, _)
SumOf(rs, field) == IF rs = <<>> THEN 0 ELSE rs[1][field] + SumOf(Tail(rs), field)

RECURSIVE OutOf(_)
OutOf(rs) == IF rs = <<>> THEN <<>> ELSE rs[1].out \o OutOf(Tail(rs))

\* lines 32-40: a list, tuple or set, whose elements rs the generator rendered
py2math_nested(obj, rs) ==
    LET b1 == CASE obj.kind = "list" -> "[" [] obj.kind = "tuple" -> "(" [] OTHER -> "{"
        b2 == CASE obj.kind = "list" -> "]" [] obj.kind = "tuple" -> ")" [] OTHER -> "}"
        rets == [i \in 1..Len(rs) |-> rs[i].ret]
    IN  IF HasRaise(rets) THEN FirstRaise(rets)
        ELSE Math("\\left" \o b1 \o JoinText(", ", rets) \o "\\right" \o b2)

\* getsource without the except clause
py2math_source_uncaught(obj) ==
    IF obj.source = "ok" THEN None ELSE Raise(obj.source)

\* lines 45-50: inspect.getsource(obj) and the except clause; None when
\* the source was found and the function goes on
py2math_source(obj) ==
    IF obj.source = "ok" THEN None
    ELSE IF obj.source = "TypeError" THEN Math(obj.str)
    ELSE Raise(obj.source)

\* py2math returning, with debug set, the text it printed last
py2math_convert_leaking(obj, debug) ==
    LET parse_tree == obj.parse
        printed1   == IF debug THEN <<"\"" \o obj.code \o "\"">> ELSE <<>>
        printed2   == IF debug THEN <<Pretty(parse_tree, 0)>> ELSE <<>>
        visited    == Visit(obj.parse)
        result     == Math(Format(visited))
        printed3   == IF debug THEN <<repr_latex(result)>> ELSE <<>>
    IN  IF IsRaise(parse_tree) THEN Outcome(parse_tree, 1, 0, printed1)
        ELSE IF IsRaise(visited) THEN Outcome(visited, 2, 1, printed1 \o printed2)
        ELSE IF debug THEN Outcome(Math(repr_latex(result)), 2, 1, printed1 \o printed2 \o printed3)
        ELSE Outcome(result, 2, 1, printed1 \o printed2 \o printed3)

\* lines 51-56: the object has source text
py2math_convert(obj, debug) ==
    LET parse_tree == obj.parse
        printed1   == IF debug THEN <<"\"" \o obj.code \o "\"">> ELSE <<>>
        printed2   == IF debug THEN <<Pretty(parse_tree, 0)>> ELSE <<>>
        visited    == Visit(obj.parse)
        result     == Math(Format(visited))
        printed3   == IF debug THEN <<repr_latex(result)>> ELSE <<>>
    IN  IF IsRaise(parse_tree) THEN Outcome(parse_tree, 1, 0, printed1)
        ELSE IF IsRaise(visited) THEN Outcome(visited, 2, 1, printed1 \o printed2)
        ELSE Outcome(result, 2, 1, printed1 \o printed2 \o printed3)

RECURSIVE py2math(_, _)
py2math(obj, debug) ==
    IF obj.kind \in {"list", "tuple", "set"} THEN
        LET all  == [i \in 1..Len(obj.elems) |-> py2math(obj.elems[i], debug)]
            stop == {i \in 1..Len(all) : IsRaise(all[i].ret)}
            last == IF stop = {} THEN Len(all) ELSE CHOOSE i \in stop : \A j \in stop : i <= j
            rs   == SubSeq(all, 1, last)
        IN  Outcome(py2math_nested(obj, rs), SumOf(rs, "parses"), SumOf(rs, "visits"), OutOf(rs))
    ELSE IF obj.kind = "ellipsis" THEN Outcome(Math("..."), 0, 0, <<>>)
    ELSE IF py2math_source(obj) # None THEN Outcome(py2math_source(obj), 0, 0, <<>>)
    ELSE py2math_convert(obj, debug)

(***************************************************************************)
(* The inputs: parse trees as lark's python grammar builds them, and the   *)
(* objects py2math is called with.                                         *)
(***************************************************************************)
MaxOps == 3      \* operators in one term or additive expression

MaxStmts == 3    \* statements in one function body

MaxElems == 2    \* elements of one list, tuple or set

SeqsUpTo(S, lo, hi) == UNION {[1..n -> S] : n \in lo..hi}

Letter(k) == SubSeq("abcdefghijklmnop", k, k)

Var(name) == Tree("var", <<Token("NAME", name)>>)

Num(digits) == Tree("number", <<Token("DEC_NUMBER", digits)>>)

OpToken(op) ==
    CASE op = "*" -> Token("STAR", "*")
      [] op = "/" -> Token("SLASH", "/")
      [] op = "%" -> Token("PERCENT", "%")
      [] op = "+" -> Token("PLUS", "+")
      [] op = "-" -> Token("MINUS", "-")
      [] op = ">" -> Token("MORETHAN", ">")
      [] op = "<" -> Token("LESSTHAN", "<")
      [] OTHER    -> Token(op, op)

\* a chain  o1 op1 o2 op2 ...  of kind data
Chain(data, operands, ops) ==
    Tree(data, [i \in 1..(2 * Len(ops) + 1) |->
                   IF i % 2 = 1 THEN operands[(i + 1) \div 2] ELSE OpToken(ops[i \div 2])])

\* the k-th operand of a term: the name itself, or the sum (name + 1)
TermOperand(k, composite) ==
    IF composite THEN Chain("arith_expr", <<Var(Letter(k)), Num("1")>>, <<"+">>)
    ELSE Var(Letter(k))

TermTrees ==
    {Chain("term", [k \in 1..(Len(ops) + 1) |-> TermOperand(k, shape[k])], ops) :
        <<ops, shape>> \in UNION {[1..n -> {"*", "/", "%"}] \X [1..(n + 1) -> BOOLEAN] : n \in 1..MaxOps}}

\* the k-th operand of a sum: the name itself, or the product name * 2
ArithOperand(k, composite) ==
    IF composite THEN Chain("term", <<Var(Letter(k)), Num("2")>>, <<"*">>)
    ELSE Var(Letter(k))

ArithTrees ==
    {Chain("arith_expr", [k \in 1..(Len(ops) + 1) |-> ArithOperand(k, shape[k])], ops) :
        <<ops, shape>> \in UNION {[1..n -> {"+", "-"}] \X [1..(n + 1) -> BOOLEAN] : n \in 1..MaxOps}}

Factor(op, operand) == Tree("factor", <<OpToken(op), operand>>)

Comparison(left, op, right) ==
    Tree("comparison", <<left, Tree("comp_op", [i \in 1..Len(op) |-> OpToken(op[i])]), right>>)

Atoms == {Var("x"), Num("2"), Tree("string", <<Token("STRING", "'s'")>>)}

Composites ==
    {Chain("arith_expr", <<Var("x"), Num("1")>>, <<"+">>),
     Chain("term", <<Var("x"), Var("y")>>, <<"/">>),
     Tree("power", <<Var("x"), Num("2")>>),
     Tree("funccall", <<Var("g"), Tree("arguments", <<Var("x"), Tree("argvalue", <<Var("k"), Num("2")>>)>>)>>),
     Factor("-", Var("x")),
     Tree("shift_expr", <<Var("x"), Token("__ANON_0", "<<"), Num("2")>>)}

PowerTrees == {Tree("power", <<b, e>>) : b \in Atoms \cup Composites, e \in Atoms \cup Composites}

CompOps ==
    {<<"<">>, <<">">>, <<"==">>, <<">=">>, <<"<=">>, <<"<>">>, <<"!=">>,
     <<"in">>, <<"not", "in">>, <<"is">>, <<"is", "not">>}

MiscTrees ==
    {Comparison(Var("x"), op, c) : op \in CompOps, c \in {Num("0"), Chain("arith_expr", <<Var("y"), Num("1")>>, <<"+">>)}}
    \cup {Tree("test", <<a, Comparison(Var("x"), <<">">>, Num("0")), Factor("-", Var("x"))>>) : a \in Atoms \cup Composites}
    \cup {Tree("lambdef", <<Tree("lambda_params", <<Token("NAME", "x"), Token("NAME", "y"), None>>), b>>) : b \in Composites}
    \cup {Tree(kind, xs) : kind \in {"tuple", "testlist_tuple", "set"}, xs \in SeqsUpTo({Var("x"), Num("2")}, 1, 2)}
    \cup {Tree("ellipsis", <<>>), Tree("eval_input", <<Var("x")>>)}
    \cup Atoms \cup Composites

(***************************************************************************)
(* Function bodies.  A body is a sequence of statement kinds: an           *)
(* assignment, a return, an expression statement, or pass; the i-th        *)
(* statement uses the i-th name, so that the order of the lines shows.     *)
(***************************************************************************)
StmtKinds == {"assign", "return", "expr", "pass"}

Stmt(kind, i) ==
    CASE kind = "assign" ->
             Tree("assign_stmt", <<Tree("assign", <<Var(Letter(i)), Num(ToString(i))>>)>>)
      [] kind = "return" ->
             Tree("return_stmt", <<Chain("arith_expr", <<Var(Letter(i)), Num("1")>>, <<"+">>)>>)
      [] kind = "expr"   -> Tree("expr_stmt", <<Var(Letter(i))>>)
      [] OTHER           -> Tree("pass_stmt", <<>>)

StmtCode(kind, i) ==
    CASE kind = "assign" -> "    " \o Letter(i) \o " = " \o ToString(i) \o "\n"
      [] kind = "return" -> "    return " \o Letter(i) \o " + 1\n"
      [] kind = "expr"   -> "    " \o Letter(i) \o "\n"
      [] OTHER           -> "    pass\n"

Bodies == SeqsUpTo(StmtKinds, 1, MaxStmts)

Suite(body) == Tree("suite", [i \in 1..Len(body) |-> Stmt(body[i], i)])

SuiteTrees == {Suite(body) : body \in Bodies}

\* the parameter list of `def f(x)`, with the placeholders of the two
\* optional parts of the grammar's rule that are absent
Parameters(names) ==
    Tree("parameters", [i \in 1..Len(names) |-> Token("NAME", names[i])] \o <<None, None>>)

FuncDef(name, names, body) ==
    Tree("file_input", <<Tree("funcdef", <<Token("NAME", name), Parameters(names), None, body>>)>>)

Function(name, code, parse) ==
    Obj("function", <<>>, "<function " \o name \o ">", "ok", code, parse)

BodyFunction(body) ==
    Function("f", "def f(x):\n" \o Concat([i \in 1..Len(body) |-> StmtCode(body[i], i)]),
             FuncDef("f", <<"x">>, Suite(body)))

\* def f(x): return x + 1
FuncPlusOne ==
    Function("f", "def f(x): return x + 1\n",
        FuncDef("f", <<"x">>, Tree("suite", <<Tree("return_stmt",
            <<Chain("arith_expr", <<Var("x"), Num("1")>>, <<"+">>)>>)>>)))

\* def f(x, y): return x / y
FuncDivide ==
    Function("f", "def f(x, y): return x / y\n",
        FuncDef("f", <<"x", "y">>, Tree("suite", <<Tree("return_stmt",
            <<Chain("term", <<Var("x"), Var("y")>>, <<"/">>)>>)>>)))

\* def f(x): return x if x > 0 else -x
FuncAbs ==
    Function("f", "def f(x): return x if x > 0 else -x\n",
        FuncDef("f", <<"x">>, Tree("suite", <<Tree("return_stmt",
            <<Tree("test", <<Var("x"), Comparison(Var("x"), <<">">>, Num("0")),
                             Factor("-", Var("x"))>>)>>)>>)))

\* g = lambda x: x ** 2
FuncLambda ==
    Function("<lambda>", "g = lambda x: x ** 2\n",
        Tree("file_input", <<Tree("assign_stmt", <<Tree("assign", <<Var("g"),
            Tree("lambdef", <<Tree("lambda_params", <<Token("NAME", "x"), None>>),
                              Tree("power", <<Var("x"), Num("2")>>)>>)>>)>>)>>))

\* a method: getsource returns its indented text, which the parser rejects
FuncMethod ==
    Function("C.m", "    def m(self): return 1\n", Raise("UnexpectedToken"))

\* a function made by exec or typed at the prompt: getsource finds no file
FuncNoFile == Obj("function", <<>>, "<function h>", "OSError", "", None)

IntObj(digits) == Obj("int", <<>>, digits, "TypeError", "", None)

EllipsisObj == Obj("ellipsis", <<>>, "Ellipsis", "TypeError", "", None)

Container(kind, elems) == Obj(kind, elems, "", "TypeError", "", None)

Leaves ==
    {IntObj("5"), IntObj("7"), EllipsisObj, FuncPlusOne, FuncDivide, FuncAbs, FuncLambda,
     FuncMethod, FuncNoFile}

Distinct(xs) == \A i, j \in 1..Len(xs) : i # j => xs[i] # xs[j]

\* a set holds hashable elements, each once
SetElems(xs) == Distinct(xs) /\ \A i \in 1..Len(xs) : xs[i].kind \notin {"list", "set"}

ContainersOver(S) ==
    {Container(kind, xs) : kind \in {"list", "tuple"}, xs \in SeqsUpTo(S, 0, MaxElems)}
    \cup {Container("set", xs) : xs \in {ys \in SeqsUpTo(S, 0, MaxElems) : SetElems(ys)}}

NestedSeeds ==
    {IntObj("5"), Container("list", <<IntObj("5")>>), Container("tuple", <<IntObj("5")>>),
     Container("set", <<FuncPlusOne>>), Container("list", <<FuncNoFile, IntObj("7")>>),
     Container("tuple", <<>>)}

Objects ==
    Leaves \cup {BodyFunction(body) : body \in Bodies}
           \cup ContainersOver(Leaves) \cup ContainersOver(NestedSeeds)

Trees == TermTrees \cup ArithTrees \cup PowerTrees \cup SuiteTrees \cup MiscTrees

(***************************************************************************)
(* The state machine: one call of py2math or of Converter().visit at a     *)
(* time, from the idle state and back to it.                               *)
(***************************************************************************)
NoObject == Obj("none", <<>>, "", "", "", None)

NoCall == [obj |-> NoObject, debug |-> FALSE, ret |-> None, parses |-> 0, visits |-> 0, out |-> <<>>]

CallRecord(obj, debug) ==
    LET r == py2math(obj, debug)
    IN  [obj |-> obj, debug |-> debug, ret |-> r.ret, parses |-> r.parses,
         visits |-> r.visits, out |-> r.out]

Init ==
    /\ phase = "idle"
    /\ call = NoCall
    /\ twin = NoCall
    /\ node = None
    /\ val = None
    /\ locals = term_init

Py2MathCall(obj, debug) ==
    /\ phase = "idle"
    /\ phase' = "py2math"
    /\ call' = CallRecord(obj, debug)
    /\ twin' = CallRecord(obj, ~debug)
    /\ node' = None
    /\ val' = None
    /\ locals' = term_init

ConverterVisit(tree) ==
    /\ phase = "idle"
    /\ phase' = "visit"
    /\ node' = tree
    /\ val' = Visit(tree)
    /\ locals' = IF tree.type = "term" /\ ~HasRaise(visit_children(tree))
                 THEN term_scan(visit_children(tree)) ELSE term_init
    /\ call' = NoCall
    /\ twin' = NoCall

\* the caller takes the result; the trees and locals of the call are gone
Return ==
    /\ phase # "idle"
    /\ phase' = "idle"
    /\ call' = NoCall
    /\ twin' = NoCall
    /\ node' = None
    /\ val' = None
    /\ locals' = term_init

Next ==
    \/ \E obj \in Objects, debug \in BOOLEAN : Py2MathCall(obj, debug)
    \/ \E tree \in Trees : ConverterVisit(tree)
    \/ Return

Spec == Init /\ [][Next]_vars

(***************************************************************************)
(* What the properties below read off a state.                             *)
(***************************************************************************)
Visiting(data) == phase = "visit" /\ node.type = data

Calling == phase = "py2math"

IsContainer(obj) == obj.kind \in {"list", "tuple", "set"}

\* the number of operands of a chain, and its k-th operator (before operand k + 1)
Operands(tree) == (Len(tree.items) + 1) \div 2

Operator(tree, k) == tree.items[2 * k].text

\* a term whose operators are all * or /
StarSlashTerm(tree) == \A k \in 1..(Operands(tree) - 1) : Operator(tree, k) \in {"*", "/"}

\* the rendered operands of a chain at the positions that satisfy Keep
OperandsWhere(tree, Keep(_)) ==
    LET ks == SelectSeq([k \in 1..Operands(tree) |-> k], Keep)
    IN  [j \in 1..Len(ks) |-> visit_children(tree)[2 * ks[j] - 1]]

Texts(xs) == [i \in 1..Len(xs) |-> Format(xs[i])]

\* an operand as it stands in a rendering, with 0 or 1 added bracket pairs
Wrapped(x, pairs) ==
    IF pairs = 0 THEN Format(x) ELSE "\\left(" \o Format(x) \o "\\right)"

Atomic(x) == x.cls = "Token"

\* the body of a function object whose source parses to one def
BodyOf(obj) == obj.parse.items[1].items[4]

HasBody(obj) ==
    /\ obj.kind = "function" /\ obj.source = "ok" /\ obj.parse.cls = "Tree"
    /\ obj.parse.items[1].type = "funcdef"

\* the suite invariant: assignments, then one return
SuiteShape(tree) ==
    LET n == Len(tree.items)
    IN  /\ n >= 1
        /\ tree.items[n].type = "return_stmt"
        /\ \A i \in 1..(n - 1) : tree.items[i].type = "assign_stmt"

LineBreak == "\\\\\n"

(***************************************************************************)
(* C1.  In a term whose operators are all * or /, the first operand is a   *)
(* dividend and each later operand is a divisor exactly if the operator    *)
(* just before it is /; a * b / c * d has the dividends a, b, d and the    *)
(* divisor c; the result is \frac{dividends}{divisors} exactly if there is *)
(* a divisor.                                                              *)
(***************************************************************************)
C1_Shown(xs) == JoinText(" \\cdot ", term_brackets(xs))

\* C1: the dividends and divisors of a term follow the operator before each
\* operand, and the result is a \frac exactly if there is a divisor.
C1_DivisionToggling ==
    (Visiting("term") /\ StarSlashTerm(node)) =>
        /\ locals.dividend = OperandsWhere(node, LAMBDA k : k = 1 \/ Operator(node, k - 1) # "/")
        /\ locals.divisor = OperandsWhere(node, LAMBDA k : k > 1 /\ Operator(node, k - 1) = "/")
        /\ val.cls = "str"
        /\ (locals.divisor # <<>>) <=> StartsWith(val.text, "\\frac{")
        /\ (locals.divisor # <<>>) =>
               val.text = "\\frac{" \o C1_Shown(locals.dividend) \o "}{" \o C1_Shown(locals.divisor) \o "}"
        /\ (node = Chain("term", <<Var("a"), Var("b"), Var("c"), Var("d")>>, <<"*", "/", "*">>)) =>
               /\ Texts(locals.dividend) = <<"a", "b", "d">>
               /\ Texts(locals.divisor) = <<"c">>

C1_Witness ==
    /\ Visiting("term")
    /\ node = Chain("term", <<Var("a"), Var("b"), Var("c"), Var("d")>>, <<"*", "/", "*">>)
    /\ Texts(locals.dividend) = <<"a", "b", "d">>
    /\ val = Str("\\frac{a \\cdot b \\cdot d}{c}")

(***************************************************************************)
(* C2.  A body whose last statement is not a return, or with a statement   *)
(* before the last that is not an assignment, makes Converter.suite raise, *)
(* and py2math of such a function raises instead of returning a Math.      *)
(***************************************************************************)
C2_SuiteInvariantEnforced ==
    /\ (Visiting("suite") /\ ~SuiteShape(node)) => IsRaise(val)
    /\ (Calling /\ HasBody(call.obj) /\ ~SuiteShape(BodyOf(call.obj))) =>
           IsRaise(call.ret) /\ call.ret.text = ""

C2_Witness ==
    /\ Calling
    /\ call.obj = BodyFunction(<<"assign", "return", "assign">>)
    /\ call.ret = Raise("AssertionError")
    /\ call.visits = 1

(***************************************************************************)
(* C3, as the code has it.  py2math of `def f(x): return x + 1` returns    *)
(* exactly `f(x) = x+1`: an additive expression is its operands and        *)
(* operator symbols concatenated, with no space added around an operator.  *)
(***************************************************************************)
C3_PlusOneUnspaced ==
    /\ (Calling /\ call.obj = FuncPlusOne) => call.ret = Math("f(x) = x+1")
    /\ (Visiting("arith_expr") /\ \A k \in 1..Operands(node) : node.items[2 * k - 1].type \in {"var", "number"}) =>
           val = Str(Concat([i \in 1..Len(node.items) |-> visit_children(node)[i].text]))

C3_Witness ==
    /\ Calling
    /\ call.obj = FuncPlusOne
    /\ call.ret.cls = "Math"
    /\ Len(call.ret.text) = 10

\* C3 as stated: the result is `f(x) = x + 1`, a space on each side of the +.
C3_Original ==
    (Calling /\ call.obj = FuncPlusOne) => call.ret = Math("f(x) = x + 1")

(***************************************************************************)
(* C4 as stated.  py2math of a one-element tuple has a comma after the     *)
(* element, before the closing bracket; of a one-element list or set it    *)
(* has none.                                                               *)
(***************************************************************************)
C4_Original ==
    (Calling /\ IsContainer(call.obj) /\ Len(call.obj.elems) = 1 /\ ~IsRaise(call.ret)) =>
        /\ call.obj.kind = "tuple" => EndsWith(call.ret.text, ",\\right)")
        /\ call.obj.kind = "list" => ~EndsWith(call.ret.text, ",\\right]")
        /\ call.obj.kind = "set" => ~EndsWith(call.ret.text, ",\\right}")

(***************************************************************************)
(* C5, as the code has it.  For an object that is no list, tuple or set    *)
(* and not the ellipsis: when inspect.getsource raises a TypeError,        *)
(* py2math returns Math(str(obj)) and calls neither the parser nor the     *)
(* Converter; when it raises anything else, py2math raises that.           *)
(***************************************************************************)
C5_TypeErrorFallback ==
    (Calling /\ ~IsContainer(call.obj) /\ call.obj.kind # "ellipsis") =>
        /\ call.obj.source = "TypeError" =>
               call.ret = Math(call.obj.str) /\ call.parses = 0 /\ call.visits = 0
        /\ call.obj.source \notin {"ok", "TypeError"} =>
               call.ret = Raise(call.obj.source) /\ call.parses = 0 /\ call.visits = 0

C5_Witness ==
    /\ Calling
    /\ call.obj = IntObj("5")
    /\ call.ret = Math("5")
    /\ call.parses = 0

\* C5 as stated: whatever getsource raises, the result is Math(str(obj)).
C5_Original ==
    (Calling /\ ~IsContainer(call.obj) /\ call.obj.kind # "ellipsis" /\ call.obj.source # "ok") =>
        call.ret = Math(call.obj.str) /\ call.parses = 0 /\ call.visits = 0

(***************************************************************************)
(* C6 as stated.  py2math of `def f(x): return x if x > 0 else -x` is a    *)
(* cases block of two rows: x labelled `if x > 0`, and -x labelled         *)
(* `otherwise`.                                                            *)
(***************************************************************************)
C6_Original ==
    (Calling /\ call.obj = FuncAbs) =>
        call.ret = Math("f(x) = " \o "\n\\begin{cases}\n"
                        \o "  x & \\text{if } x > 0 \\\\\n"
                        \o "  -x & \\text{otherwise}\n"
                        \o "\\end{cases}\n")

(***************************************************************************)
(* C7, as the code has it.  An atomic operand (a token) gets no added      *)
(* bracket pair.  A non-atomic operand gets exactly one pair as an operand *)
(* of an additive expression and as the base of a power; in a term it gets *)
(* exactly one pair when its list (the dividends or the divisors) holds    *)
(* more than one operand, and none when it is the only one of its list.    *)
(***************************************************************************)
C7_Pairs(x, alone, soleWrapped) ==
    IF Atomic(x) THEN 0 ELSE IF alone /\ ~soleWrapped THEN 0 ELSE 1

RECURSIVE C7_JoinStrings(_, _)
C7_JoinStrings(sep, xs) ==
    IF xs = <<>> THEN ""
    ELSE IF Len(xs) = 1 THEN xs[1]
    ELSE xs[1] \o sep \o C7_JoinStrings(sep, Tail(xs))

C7_List(xs, soleWrapped) ==
    C7_JoinStrings(" \\cdot ", [i \in 1..Len(xs) |-> Wrapped(xs[i], C7_Pairs(xs[i], Len(xs) = 1, soleWrapped))])

C7_Term(soleWrapped) ==
    LET dividends == OperandsWhere(node, LAMBDA k : k = 1 \/ Operator(node, k - 1) # "/")
        divisors  == OperandsWhere(node, LAMBDA k : k > 1 /\ Operator(node, k - 1) = "/")
    IN  IF divisors = <<>> THEN C7_List(dividends, soleWrapped)
        ELSE "\\frac{" \o C7_List(dividends, soleWrapped) \o "}{" \o C7_List(divisors, soleWrapped) \o "}"

C7_Arith ==
    Concat([i \in 1..Len(node.items) |->
        IF i % 2 = 1
        THEN Wrapped(visit_children(node)[i], C7_Pairs(visit_children(node)[i], FALSE, TRUE))
        ELSE node.items[i].text])

C7_Power ==
    "{" \o Wrapped(visit_children(node)[1], C7_Pairs(visit_children(node)[1], TRUE, TRUE))
        \o "}^{" \o Format(visit_children(node)[2]) \o "}"

C7_Renderable == ~HasRaise(visit_children(node)) /\ ~IsRaise(val)

\* C7, as the code has it: no pair for a token; one pair for a non-atomic
\* operand, except the only dividend or only divisor of a term, which gets none.
C7_Bracketization ==
    /\ (Visiting("term") /\ StarSlashTerm(node) /\ C7_Renderable) => val = Str(C7_Term(FALSE))
    /\ (Visiting("arith_expr") /\ C7_Renderable) => val = Str(C7_Arith)
    /\ (Visiting("power") /\ C7_Renderable) => val = Str(C7_Power)

C7_Witness ==
    /\ Visiting("term")
    /\ node = Chain("term", <<TermOperand(1, TRUE), TermOperand(2, TRUE), TermOperand(3, TRUE)>>, <<"/", "/">>)
    /\ val = Str("\\frac{a+1}{\\left(b+1\\right) \\cdot \\left(c+1\\right)}")

\* C7 as stated: a non-atomic operand that is the only dividend or the only
\* divisor of a term gets exactly one bracket pair, too.
C7_Original ==
    /\ (Visiting("term") /\ StarSlashTerm(node) /\ C7_Renderable) => val = Str(C7_Term(TRUE))
    /\ (Visiting("arith_expr") /\ C7_Renderable) => val = Str(C7_Arith)
    /\ (Visiting("power") /\ C7_Renderable) => val = Str(C7_Power)

(***************************************************************************)
(* C8.  A body of N > 1 statements that keeps the suite invariant renders  *)
(* as the returned expression, the \text{where} label, and the N - 1       *)
(* assignments in source order, with a LaTeX line break between the parts; *)
(* a body of one statement renders as the return value alone.              *)
(***************************************************************************)
\* the i-th statement of a body, rendered: `a = 1`, or the returned `c+1`
C8_Line(tree, i) ==
    IF tree.items[i].type = "assign_stmt" THEN Letter(i) \o " = " \o ToString(i)
    ELSE Letter(i) \o "+1"

C8_Expected(tree) ==
    LET n == Len(tree.items)
    IN  IF n = 1 THEN C8_Line(tree, 1)
        ELSE C8_Line(tree, n) \o LineBreak \o "\\text{where}" \o LineBreak
             \o C7_JoinStrings(LineBreak, [i \in 1..(n - 1) |-> C8_Line(tree, i)])

\* C8: the return value, the where label, the assignments in source order;
\* a one-statement body is the return value alone.
C8_WhereForm ==
    /\ (Visiting("suite") /\ SuiteShape(node)) =>
           /\ val = Str(C8_Expected(node))
           /\ Len(node.items) = 1 => ~Contains(val.text, "where")
    /\ (Calling /\ call.obj \in {BodyFunction(body) : body \in Bodies} /\ SuiteShape(BodyOf(call.obj))) =>
           call.ret = Math("f(x) = " \o C8_Expected(BodyOf(call.obj)))

C8_Witness ==
    /\ Visiting("suite")
    /\ node = Suite(<<"assign", "assign", "return">>)
    /\ val = Str("c+1\\\\\n\\text{where}\\\\\na = 1\\\\\nb = 2")

(***************************************************************************)
(* C9.  The call with debug set returns the same Math value, or raises the *)
(* same exception, as the call on the same object without it, also for a   *)
(* list, tuple or set whose elements get the flag passed down.             *)
(***************************************************************************)
C9_DebugIsSideChannel ==
    Calling => /\ twin.obj = call.obj
               /\ twin.debug = ~call.debug
               /\ twin.ret = call.ret

C9_Witness ==
    /\ Calling
    /\ call.obj = Container("list", <<FuncPlusOne, IntObj("5")>>)
    /\ call.debug
    /\ Len(call.out) = 3
    /\ twin.out = <<>>
    /\ call.ret = Math("\\left[f(x) = x+1, 5\\right]")

(***************************************************************************)
(* C10 as stated.  A py2math call that gets source text for its object     *)
(* calls the parser exactly once, with debug and without.                  *)
(***************************************************************************)
C10_Original ==
    (Calling /\ call.obj.kind = "function" /\ call.obj.source = "ok") => call.parses = 1

=============================================================================
